---- MODULE Spec2Model ----
(***************************************************************************)
(* Model of the Open Measures gateway: the CLI wrapper (src/OM_api.py) and *)
(* the HTTP server wrapper (src/local-api-OM.py).  One behaviour is one    *)
(* invocation of an entry point: the CLI natural_language_search, the      *)
(* CLI manual search of main(), the POST /search route of the server, or   *)
(* a direct call of call_claude.  The natural-language session of the     *)
(* CLI, ai_search_mode, is a specification of its own (SessionSpec).       *)
(*                                                                         *)
(* Texts are sequences of tokens.  The tokens that the code inspects are   *)
(* kept apart: "FENCE" (three backticks), "json" (the language tag),      *)
(* "\n", " ",                                                              *)
(* "]:" (the actor-envelope separator).  "J" is the text of one JSON value *)
(* written on one line; "J1" and "J2" are the two lines of a JSON value    *)
(* written on two lines; "x" is text that is no JSON.                      *)
(***************************************************************************)
EXTENDS Integers, Sequences, FiniteSets, TLC

VARIABLES entry,              \* the entry point this behaviour runs
          pc,                 \* position inside the entry point
          claude_api_key,     \* TRUE iff a completion credential is configured
          is_chat_completion, \* local-api-OM.py:161
          query,              \* the extracted query / user_query, a text
          x_request_time,     \* the X-Request-Time header read at line 257
          parse_response,     \* <<>> or <<text>>: what call_claude returned
          params,             \* the interpreter's parsed JSON value
          sent,               \* the outbound search requests, in order
          results,            \* the envelope search returned
          ret,                \* what the entry point returned / answered
          completionCalls,    \* POSTs made to the completion API
          searchCalls,        \* GETs made to the search API
          data_keys,          \* the keys "k in data" finds in the request body
          last_post,          \* what the last POST to the completion API did
          escaped,            \* the client methods an exception has left
          data_read           \* what the route read in the body: data['query'],
                              \* the last element of data['messages']

vars == <<entry, pc, claude_api_key, is_chat_completion, query, x_request_time,
          parse_response, params, sent, results, ret, completionCalls, searchCalls,
          data_keys, last_post, escaped, data_read>>

----------------------------------------------------------------------------
(* Bounds of the model *)

\* largest number of hits a search reply carries
MaxHits == 2
\* the integers an X-Request-Time header or a limit may show, beside the
\* values around the cap: -MaxInt .. MaxInt
MaxInt == 2

(* Program constants *)

\* min(limit, 10000)
LimitCap == 10000
\* int(...) or 1234567890
CreatedFallback == 1234567890
\* params.get("limit", 20)
DefaultLimit == 20

----------------------------------------------------------------------------
(* Python's str operations, on token sequences *)

Whitespace == {" ", "\n"}

RECURSIVE lstrip(_)
lstrip(s) == IF s # <<>> /\ Head(s) \in Whitespace THEN lstrip(Tail(s)) ELSE s

RECURSIVE rstrip(_)
rstrip(s) ==
    IF s # <<>> /\ s[Len(s)] \in Whitespace
    THEN rstrip(SubSeq(s, 1, Len(s) - 1))
    ELSE s

\* str.strip()
strip(s) == rstrip(lstrip(s))

\* str.startswith(tok), for a prefix that is one token
startswith(s, tok) == s # <<>> /\ Head(s) = tok

\* tok in s
contains(s, tok) == \E i \in 1..Len(s) : s[i] = tok

\* index of the first occurrence of tok in s (s contains tok)
find(s, tok) == CHOOSE i \in 1..Len(s) : s[i] = tok /\ \A j \in 1..(i - 1) : s[j] # tok

\* str.split(sep): every segment between separators
RECURSIVE split(_, _)
split(s, sep) ==
    IF contains(s, sep)
    THEN <<SubSeq(s, 1, find(s, sep) - 1)>> \o split(SubSeq(s, find(s, sep) + 1, Len(s)), sep)
    ELSE <<s>>

\* str.split(sep, 1): at most one split, at the first separator
split1(s, sep) ==
    IF contains(s, sep)
    THEN <<SubSeq(s, 1, find(s, sep) - 1), SubSeq(s, find(s, sep) + 1, Len(s))>>
    ELSE <<s>>

\* sep.join(lines)
RECURSIVE join(_, _)
join(sep, lines) ==
    IF lines = <<>> THEN <<>>
    ELSE IF Len(lines) = 1 THEN lines[1]
    ELSE lines[1] \o <<sep>> \o join(sep, Tail(lines))

\* lines[1:-1]
drop_first_last(lines) == SubSeq(lines, 2, Len(lines) - 1)

\* s without its whitespace tokens
RECURSIVE squeeze(_)
squeeze(s) ==
    IF s = <<>> THEN <<>>
    ELSE IF Head(s) \in Whitespace THEN squeeze(Tail(s))
    ELSE <<Head(s)>> \o squeeze(Tail(s))

----------------------------------------------------------------------------
(* The interpreter's handling of the completion reply *)

\* a stripping that drops the first line only: lines[1:]
extract_json_keeping_last_line(response) ==
    LET json_str == strip(response)
        unfenced == IF startswith(json_str, "FENCE")
                    THEN join("\n", Tail(split(json_str, "\n")))
                    ELSE json_str
    IN  IF startswith(unfenced, "json") THEN strip(Tail(unfenced)) ELSE unfenced

\* the fence / tag stripping that precedes json.loads
extract_json(response) ==
    LET json_str == strip(response)
        unfenced == IF startswith(json_str, "FENCE")
                    THEN join("\n", drop_first_last(split(json_str, "\n")))
                    ELSE json_str
    IN  IF startswith(unfenced, "json") THEN strip(Tail(unfenced)) ELSE unfenced

\* json.loads accepts exactly one JSON value, with whitespace around it and
\* between its tokens: TRUE iff json_str is such a text
json_loads_ok(json_str) == squeeze(json_str) \in {<<"J">>, <<"J1", "J2">>}

----------------------------------------------------------------------------
(* Values *)

\* an optional value: <<>> when absent, <<v>> when present
Opt(S) == {<<>>} \cup {<<v>> : v \in S}

\* the integers of the model: the small ones and those around the cap
Ints == (-MaxInt .. MaxInt) \cup {DefaultLimit, LimitCap - 1, LimitCap, LimitCap + 1}

\* a JSON value in the place of a limit: an integer, null, or a string
LimitValues ==
    {[t |-> "int", v |-> n] : n \in Ints} \cup {[t |-> "null", v |-> 0], [t |-> "str", v |-> 0]}

IntLimit(n) == [t |-> "int", v |-> n]

Terms == {"trump"}
\* "gab" is in SITES, "mastodon" is not
Sites == {"gab", "mastodon"}
\* "query_string" is in QUERY_TYPES, "fuzzy" is not
QueryTypes == {"query_string", "fuzzy"}

\* an error description, as the code composes it: the fixed text, the
\* exception it embeds (or "") and the raw completion reply it embeds (or <<>>)
Message(text, cause, raw) == [text |-> text, cause |-> cause, raw |-> raw]

ModelError == Message("error field of the model's own JSON", "", <<>>)

EmptyObject ==
    [kind |-> "object", term |-> <<>>, site |-> <<>>, limit |-> <<>>,
     querytype |-> <<>>, error |-> <<>>]

\* the JSON values a completion reply may denote: an object with any of the
\* four fields (and possibly an error field), or a value that is no object
Docs ==
    [kind : {"object"}, term : Opt(Terms), site : Opt(Sites), limit : Opt(LimitValues),
     querytype : Opt(QueryTypes), error : Opt({ModelError})]
    \cup {[kind |-> "nonobject"]}

\* the text of a JSON value: on one line, or on two
JTexts == {<<"J">>, <<"J1", "\n", "J2">>}

\* the layouts of a reply around the JSON text j
Bare(j) == j
FenceTagOnFenceLine(j) == <<"FENCE", "json", "\n">> \o j \o <<"\n", "FENCE">>
FenceTagOnOwnLine(j) == <<"FENCE", "\n", "json", "\n">> \o j \o <<"\n", "FENCE">>
FenceNoTag(j) == <<"FENCE", "\n">> \o j \o <<"\n", "FENCE">>
FenceClosedOnObjectLine(j) == <<"FENCE", "json", "\n">> \o j \o <<"FENCE">>
FenceOnOneLine(j) == <<"FENCE", "json", " ">> \o j \o <<"FENCE">>
TagNoFence(j) == <<"json", "\n">> \o j
Padded(s) == <<"\n">> \o s \o <<" ", "\n">>

\* the texts the completion API may generate
Replies ==
    UNION {{Bare(j), FenceTagOnFenceLine(j), FenceTagOnOwnLine(j), FenceNoTag(j),
            FenceClosedOnObjectLine(j), FenceOnOneLine(j), TagNoFence(j),
            Padded(Bare(j)), Padded(FenceTagOnFenceLine(j))} : j \in JTexts}
    \cup {<<>>, <<"x">>, <<"x", "J">>, <<"FENCE">>}

\* what the POST to the completion API may do: fail in transport or with a
\* non-2xx status, or answer 2xx with a body of one of the shapes
CompletionOutcomes ==
    {[kind |-> k, text |-> <<>>] : k \in {"transport_error", "http_error", "no_content",
                                           "empty_content", "no_text"}}
    \cup {[kind |-> "text", text |-> r] : r \in Replies}

\* what the GET to the search API may do
SearchOutcomes ==
    {[kind |-> k, hits |-> 0] : k \in {"transport_error", "http_error"}}
    \cup {[kind |-> "ok", hits |-> n] : n \in 0..MaxHits}

\* the X-Request-Time header: absent, an integer literal, or another text
Headers ==
    {[t |-> "absent", v |-> 0], [t |-> "nonint", v |-> 0]}
    \cup {[t |-> "int", v |-> n] : n \in -MaxInt .. MaxInt}

----------------------------------------------------------------------------
(* The two clients *)

KeyNotSetText == <<"Error: Claude API key not set">>
CallErrorText == <<"Error calling Claude API">>

\* a call_claude that goes on without a credential
key_missing_unchecked(key) == FALSE

\* if not self.claude_api_key
key_missing(key) == ~key

\* call_claude(prompt), given the credential and what the POST does:
\* the text returned or the exception raised, and the POSTs made
call_claude(key, outcome) ==
    IF key_missing(key)
    THEN [raised |-> "", text |-> KeyNotSetText, posts |-> 0]
    ELSE CASE outcome.kind \in {"transport_error", "http_error"} ->
                [raised |-> "", text |-> CallErrorText, posts |-> 1]
           [] outcome.kind = "no_content" ->
                [raised |-> "KeyError", text |-> <<>>, posts |-> 1]
           [] outcome.kind = "empty_content" ->
                [raised |-> "IndexError", text |-> <<>>, posts |-> 1]
           [] outcome.kind = "no_text" ->
                [raised |-> "KeyError", text |-> <<>>, posts |-> 1]
           [] OTHER ->
                [raised |-> "", text |-> outcome.text, posts |-> 1]

\* min(limit, 10000) on an integer
cap_limit(n) == IF n < LimitCap THEN n ELSE LimitCap

NoEnvelope == [kind |-> "none", error |-> <<>>, hits |-> 0]

\* search(term, site, limit, querytype), given what the GET does: the
\* envelope returned or the exception raised, and the request sent (if any)
search(term, site, limit, querytype, outcome) ==
    IF limit.t # "int"
    THEN [raised |-> "TypeError", request |-> <<>>, envelope |-> NoEnvelope]
    ELSE LET request == [term |-> term, site |-> site, limit |-> cap_limit(limit.v),
                         querytype |-> querytype, sortdesc |-> "false"]
         IN  IF outcome.kind = "ok"
             THEN [raised |-> "", request |-> <<request>>,
                   envelope |-> [kind |-> "ok", error |-> <<>>, hits |-> outcome.hits]]
             ELSE [raised |-> "", request |-> <<request>>,
                   envelope |-> [kind |-> "error", hits |-> 0,
                                 error |-> <<Message(outcome.kind, "RequestException", <<>>)>>]]

\* dict.get(key, default) on an optional field
get(field, default) == IF field = <<>> THEN default ELSE field[1]

----------------------------------------------------------------------------
(* The request body of POST /search, as request.get_json() returns it *)

\* a message content: a string (a text) or another JSON value (content
\* parts), which is truthy iff its text is not empty
StrContents ==
    {<<>>, <<"q">>, <<"a", "]:", "\n", "q">>, <<"a", "]:", " ">>,
     <<"a", "]:", "q", "]:", "q">>}
Contents ==
    {[isstr |-> TRUE, text |-> t] : t \in StrContents}
    \cup {[isstr |-> FALSE, text |-> <<"parts">>], [isstr |-> FALSE, text |-> <<>>]}

NoQuery == [isstr |-> FALSE, text |-> <<>>]

\* a message of the messages array: a dict (with or without content) or not
MessageValues == [isdict : BOOLEAN, content : Opt(Contents)]
EarlierMessage == [isdict |-> TRUE, content |-> <<[isstr |-> TRUE, text |-> <<"earlier">>]>>]

\* the value of the messages field: a list of messages, or no list
MessagesValues ==
    {[islist |-> FALSE, items |-> <<>>], [islist |-> TRUE, items |-> <<>>]}
    \cup {[islist |-> TRUE, items |-> <<m>>] : m \in MessageValues}
    \cup {[islist |-> TRUE, items |-> <<EarlierMessage, m>>] : m \in MessageValues}

\* the value of the query field
QueryValues == {[isstr |-> TRUE, text |-> t] : t \in {<<>>, <<"q">>, <<"a", "]:", "q">>}}

BodyKeys == {"query", "messages", "model"}

\* a JSON body: falsy (null, {}, [], "", 0), an object, a non-empty array or
\* string (of which "k in data" is a membership or substring test), a number
Bodies ==
    {[kind |-> "falsy"], [kind |-> "number"]}
    \cup [kind : {"object"}, query : Opt(QueryValues), messages : Opt(MessagesValues),
          model : BOOLEAN]
    \cup [kind : {"array_or_string"}, has : SUBSET BodyKeys]

\* an extraction that cuts at the last "]:" of the content
extract_chat_query_after_last(messages) ==
    LET last_message == messages.items[Len(messages.items)]
    IN  IF last_message.isdict /\ last_message.content # <<>>
        THEN LET content == last_message.content[1]
             IN  IF content.isstr /\ contains(content.text, "]:")
                 THEN LET parts == split(content.text, "]:")
                      IN  [isstr |-> TRUE, text |-> strip(parts[Len(parts)])]
                 ELSE content
        ELSE NoQuery

\* the query of a chat-format body: the content of the last message, cut
\* after the first "]:" when it is a string that contains one
extract_chat_query(messages) ==
    LET last_message == messages.items[Len(messages.items)]
    IN  IF last_message.isdict /\ last_message.content # <<>>
        THEN LET content == last_message.content[1]
             IN  IF content.isstr /\ contains(content.text, "]:")
                 THEN [isstr |-> TRUE, text |-> strip(split1(content.text, "]:")[2])]
                 ELSE content
        ELSE NoQuery

\* the query a JSON object body yields, NoQuery when it yields none
extract_query(data) ==
    IF data.query # <<>> THEN data.query[1]
    ELSE IF data.messages # <<>> /\ data.messages[1].islist /\ data.messages[1].items # <<>>
    THEN extract_chat_query(data.messages[1])
    ELSE NoQuery

NoRead == [query |-> <<>>, last_message |-> <<>>]

\* what the query extraction reads in the body: data['query'] where the key
\* is there, else messages[-1] of a messages list that is not empty
body_read(data) ==
    IF data.kind # "object" THEN NoRead
    ELSE IF data.query # <<>> THEN [query |-> data.query, last_message |-> <<>>]
    ELSE IF data.messages # <<>> /\ data.messages[1].islist /\ data.messages[1].items # <<>>
    THEN [query |-> <<>>,
          last_message |-> <<data.messages[1].items[Len(data.messages[1].items)]>>]
    ELSE NoRead

\* the keys k of BodyKeys for which "k in data" holds
body_keys(data) ==
    CASE data.kind = "object" ->
           {k \in BodyKeys : \/ k = "query" /\ data.query # <<>>
                             \/ k = "messages" /\ data.messages # <<>>
                             \/ k = "model" /\ data.model}
      [] data.kind = "array_or_string" -> data.has
      [] OTHER -> {}

\* a detection that asks for the messages key alone
detect_chat_completion_by_messages(data) ==
    CASE data.kind = "object" -> data.messages # <<>>
      [] data.kind = "array_or_string" -> "messages" \in data.has
      [] OTHER -> FALSE

\* 'messages' in data and 'model' in data
detect_chat_completion(data) ==
    CASE data.kind = "object" -> data.messages # <<>> /\ data.model
      [] data.kind = "array_or_string" -> {"messages", "model"} \subseteq data.has
      [] OTHER -> FALSE

----------------------------------------------------------------------------
(* HTTP answers of the server *)

NoContent ==
    [banner |-> "", error |-> <<>>, url |-> <<>>, echo |-> FALSE, raw_json |-> FALSE]

Http(status, shape) ==
    [kind |-> "http", status |-> status, shape |-> shape, error |-> <<>>, stage |-> "",
     content |-> NoContent, created |-> <<>>, exc |-> ""]

\* jsonify({"error": ...}), status
ErrorAnswer(status, msg, stage) ==
    [Http(status, "error") EXCEPT !.error = <<msg>>, !.stage = stage]

\* an exception that leaves the route: Flask answers 500
Unhandled(exc) == [Http(500, "unhandled") EXCEPT !.exc = exc]

NoReturn == [kind |-> "none"]

----------------------------------------------------------------------------
(* Initial state *)

Entries == {"natural_language_search", "search_route", "manual_search", "call_claude"}

Unset == [kind |-> "unset"]

\* main() builds its client without a credential; the other entry points
\* run with or without one
Init ==
    /\ entry \in Entries
    /\ claude_api_key \in BOOLEAN
    /\ (entry = "manual_search" => ~claude_api_key)
    /\ pc = "start"
    /\ is_chat_completion = FALSE
    /\ query = NoQuery
    /\ x_request_time = [t |-> "absent", v |-> 0]
    /\ parse_response = <<>>
    /\ params = Unset
    /\ sent = <<>>
    /\ results = NoEnvelope
    /\ ret = NoReturn
    /\ completionCalls = 0
    /\ searchCalls = 0
    /\ data_keys = {}
    /\ last_post = "none"
    /\ escaped = {}
    /\ data_read = NoRead

----------------------------------------------------------------------------
(* POST /search, up to the interpretation *)

MissingBody == Message("Missing request body", "", <<>>)
MissingQuery == Message("Missing query", "", <<>>)
KeyNotConfigured == Message("Claude API key not configured", "", <<>>)

\* the route from request.get_json() to the credential check: the answer it
\* returns there (next = "done") or the query it goes on with
route_validate(data, key) ==
    LET chat == detect_chat_completion(data)
        stop(answer) == [next |-> "done", ret |-> answer, chat |-> chat, query |-> NoQuery]
    IN  CASE data.kind = "falsy" ->
               [next |-> "done", ret |-> ErrorAnswer(400, MissingBody, ""), chat |-> FALSE,
                query |-> NoQuery]
          [] data.kind = "number" ->
               \* 'messages' in data: argument of type 'int' is not iterable
               [next |-> "done", ret |-> Unhandled("TypeError"), chat |-> FALSE,
                query |-> NoQuery]
          [] data.kind = "array_or_string" ->
               \* data['query'], data['messages']: indices must be integers
               IF "query" \in data.has \/ "messages" \in data.has
               THEN stop(Unhandled("TypeError"))
               ELSE stop(ErrorAnswer(400, MissingQuery, ""))
          [] OTHER ->
               LET q == extract_query(data)
               IN  IF q.text = <<>>
                   THEN [next |-> "done", ret |-> ErrorAnswer(400, MissingQuery, ""),
                         chat |-> chat, query |-> q]
                   ELSE IF ~key
                   THEN [next |-> "done", ret |-> ErrorAnswer(500, KeyNotConfigured, ""),
                         chat |-> chat, query |-> q]
                   ELSE [next |-> "interpret_call", ret |-> NoReturn, chat |-> chat,
                         query |-> q]

route_receive ==
    /\ entry = "search_route" /\ pc = "start"
    /\ \E data \in Bodies :
         LET v == route_validate(data, claude_api_key)
         IN  /\ pc' = v.next
             /\ ret' = v.ret
             /\ is_chat_completion' = v.chat
             /\ query' = v.query
             /\ data_keys' = body_keys(data)
             /\ data_read' = body_read(data)
    /\ UNCHANGED <<entry, claude_api_key, x_request_time, parse_response, params, sent,
                   results, completionCalls, searchCalls, last_post, escaped>>

----------------------------------------------------------------------------
(* natural_language_search, up to the interpretation *)

UserQueries == {<<"q">>, <<"q", " ", "q">>}

KeyNotSet == Message("Claude API key not set", "", <<>>)

\* if not self.claude_api_key: return {"error": ...}
nls_validate(key) ==
    IF ~key THEN [next |-> "done", ret |-> [kind |-> "error", error |-> KeyNotSet]]
    ELSE [next |-> "interpret_call", ret |-> NoReturn]

nls_start ==
    /\ entry = "natural_language_search" /\ pc = "start"
    /\ \E user_query \in UserQueries : query' = [isstr |-> TRUE, text |-> user_query]
    /\ pc' = nls_validate(claude_api_key).next
    /\ ret' = nls_validate(claude_api_key).ret
    /\ UNCHANGED <<entry, claude_api_key, is_chat_completion, x_request_time,
                   parse_response, params, sent, results, completionCalls, searchCalls,
                   data_keys, last_post, escaped,
                   data_read>>

----------------------------------------------------------------------------
(* The interpretation: the completion call, then the parse of its reply *)

\* an exception that leaves natural_language_search
Raised(exc) == [kind |-> "raised", exc |-> exc]

\* parse_response = self.call_claude(parse_prompt), in either wrapper; the
\* call stands outside every try block, so what it raises leaves the caller
interpret_call ==
    /\ pc = "interpret_call"
    /\ \E outcome \in CompletionOutcomes :
         LET r == call_claude(claude_api_key, outcome)
         IN  /\ completionCalls' = completionCalls + r.posts
             /\ last_post' = IF r.posts = 0 THEN last_post ELSE outcome.kind
             /\ escaped' = IF r.raised # "" THEN escaped \cup {"call_claude"} ELSE escaped
             /\ IF r.raised # ""
                THEN /\ pc' = "done"
                     /\ parse_response' = <<>>
                     /\ ret' = IF entry = "search_route" THEN Unhandled(r.raised)
                               ELSE Raised(r.raised)
                ELSE /\ pc' = "interpret_parse"
                     /\ parse_response' = <<r.text>>
                     /\ ret' = ret
    /\ UNCHANGED <<entry, claude_api_key, is_chat_completion, query, x_request_time,
                   params, sent, results, searchCalls, data_keys,
                   data_read>>

SearchFailed(cause) == Message("Error during natural language search", cause, <<>>)

\* natural_language_search from the strip of the reply to the search call:
\* the error it returns there (next = "done") or the parameters it goes on with
nls_parse(response, doc) ==
    IF ~json_loads_ok(extract_json(response))
    THEN [next |-> "done", params |-> Unset,
          ret |-> [kind |-> "error",
                   error |-> Message("Failed to parse Claude's response", "JSONDecodeError",
                                     <<response>>)]]
    ELSE IF doc.kind # "object"
    THEN \* params.get on a value that is no dict, caught by except Exception
         [next |-> "done", params |-> doc,
          ret |-> [kind |-> "error", error |-> SearchFailed("AttributeError")]]
    ELSE [next |-> "search", params |-> doc, ret |-> NoReturn]

\* parse_natural_language_query from the strip of the reply to its return
parse_natural_language_query(response, doc) ==
    IF json_loads_ok(extract_json(response)) THEN doc
    ELSE [EmptyObject EXCEPT
            !.error = <<Message("Failed to parse query", "JSONDecodeError", <<>>)>>]

ParseErrorContent(msg) ==
    [NoContent EXCEPT !.banner = "Error parsing query", !.error = <<msg>>]

\* the route after parse_natural_language_query returned parsed: the answer
\* it returns on an error (next = "done"), or next = "search"
route_after_parse(parsed, chat) ==
    IF parsed.kind # "object"
    THEN \* 'error' in params, params['error'] or params.get on a value that is no dict
         [next |-> "done", ret |-> Unhandled("TypeError or AttributeError")]
    ELSE IF parsed.error # <<>>
    THEN IF chat
         THEN [next |-> "done",
               ret |-> [Http(200, "chat_completion_error") EXCEPT
                          !.content = ParseErrorContent(parsed.error[1])]]
         ELSE [next |-> "done", ret |-> ErrorAnswer(400, parsed.error[1], "parsing")]
    ELSE [next |-> "search", ret |-> NoReturn]

interpret_parse ==
    /\ pc = "interpret_parse"
    /\ \E doc \in Docs :
         IF entry = "search_route"
         THEN LET parsed == parse_natural_language_query(parse_response[1], doc)
                  v == route_after_parse(parsed, is_chat_completion)
              IN  /\ params' = parsed
                  /\ pc' = v.next
                  /\ ret' = v.ret
                  /\ parse_response' = <<>>
         ELSE LET v == nls_parse(parse_response[1], doc)
              IN  /\ params' = v.params
                  /\ pc' = v.next
                  /\ ret' = v.ret
                  /\ parse_response' = parse_response
    /\ UNCHANGED <<entry, claude_api_key, is_chat_completion, query, x_request_time,
                   sent, results, completionCalls, searchCalls, data_keys, last_post,
                   escaped,
                   data_read>>

----------------------------------------------------------------------------
(* The search call of the two wrappers *)

\* a search call that sends the default site in the place of a site the
\* registry does not list
search_with_registry_check(p, outcome) ==
    search(get(p.term, ""), IF p.site = <<"gab">> THEN "gab" ELSE "telegram",
           get(p.limit, IntLimit(DefaultLimit)), get(p.querytype, "content"), outcome)

\* api.search(term=params.get("term", ""), site=params.get("site", "telegram"),
\*            limit=params.get("limit", 20), querytype=params.get("querytype", "content"))
search_with_defaults(p, outcome) ==
    search(get(p.term, ""), get(p.site, "telegram"), get(p.limit, IntLimit(DefaultLimit)),
           get(p.querytype, "content"), outcome)

\* a continuation that asks for a summary of a search without hits too
nls_after_search_summarizing_no_hits(envelope, p) ==
    IF envelope.kind = "error"
    THEN [next |-> "done", ret |-> [kind |-> "error", error |-> envelope.error[1]]]
    ELSE [next |-> "summarize_call", ret |-> NoReturn]

\* natural_language_search after search returned envelope
nls_after_search(envelope, p) ==
    IF envelope.kind = "error"
    THEN [next |-> "done", ret |-> [kind |-> "error", error |-> envelope.error[1]]]
    ELSE IF envelope.hits = 0
    THEN [next |-> "done",
          ret |-> [kind |-> "no_results", params |-> p,
                   summary |-> <<"No results found for this query.">>]]
    ELSE [next |-> "summarize_call", ret |-> NoReturn]

search_call ==
    /\ pc = "search"
    /\ \E outcome \in SearchOutcomes :
         LET r == search_with_defaults(params, outcome)
         IN  /\ sent' = sent \o r.request
             /\ searchCalls' = searchCalls + Len(r.request)
             /\ escaped' = IF r.raised # "" THEN escaped \cup {"search"} ELSE escaped
             /\ IF r.raised # ""
                THEN /\ results' = results
                     /\ pc' = "done"
                     /\ ret' = IF entry = "search_route" THEN Unhandled(r.raised)
                               ELSE [kind |-> "error", error |-> SearchFailed(r.raised)]
                ELSE /\ results' = r.envelope
                     /\ IF entry = "search_route"
                        THEN pc' = "respond" /\ ret' = ret
                        ELSE /\ pc' = nls_after_search(r.envelope, params).next
                             /\ ret' = nls_after_search(r.envelope, params).ret
    /\ UNCHANGED <<entry, claude_api_key, is_chat_completion, query, x_request_time,
                   parse_response, params, completionCalls, data_keys, last_post,
                   data_read>>

\* summary = self.call_claude(summary_prompt), inside the try block
summarize_call ==
    /\ pc = "summarize_call"
    /\ \E outcome \in CompletionOutcomes :
         LET r == call_claude(claude_api_key, outcome)
         IN  /\ completionCalls' = completionCalls + r.posts
             /\ last_post' = IF r.posts = 0 THEN last_post ELSE outcome.kind
             /\ escaped' = IF r.raised # "" THEN escaped \cup {"call_claude"} ELSE escaped
             /\ ret' = IF r.raised # ""
                       THEN [kind |-> "error", error |-> SearchFailed(r.raised)]
                       ELSE [kind |-> "summary", params |-> params, summary |-> r.text,
                             total_found |-> results.hits]
    /\ pc' = "done"
    /\ UNCHANGED <<entry, claude_api_key, is_chat_completion, query, x_request_time,
                   parse_response, params, sent, results, searchCalls, data_keys,
                   data_read>>

----------------------------------------------------------------------------
(* The answer of POST /search after the search *)

\* f"{api.BASE_URL}?term={params.get('term')}&site=...": the four fields as
\* params holds them, an absent one shown as None
api_request_url(p) ==
    [term |-> p.term, site |-> p.site, limit |-> p.limit, querytype |-> p.querytype]

\* the assistant message of the chat-completion answer
response_content(envelope, p) ==
    IF envelope.kind = "error"
    THEN [banner |-> "Error searching Open Measures", error |-> envelope.error,
          url |-> <<api_request_url(p)>>, echo |-> FALSE, raw_json |-> FALSE]
    ELSE IF envelope.hits = 0
    THEN [banner |-> "No results found", error |-> <<>>,
          url |-> <<api_request_url(p)>>, echo |-> TRUE, raw_json |-> FALSE]
    ELSE [banner |-> "Open Measures Search Complete", error |-> <<>>,
          url |-> <<api_request_url(p)>>, echo |-> TRUE, raw_json |-> TRUE]

\* int(request.headers.get('X-Request-Time', '0')) or 1234567890:
\* <<n>>, or <<>> when int() raises ValueError
created_field(header) ==
    CASE header.t = "absent" -> <<CreatedFallback>>
      [] header.t = "nonint" -> <<>>
      [] OTHER -> IF header.v = 0 THEN <<CreatedFallback>> ELSE <<header.v>>

\* the route from "if is_chat_completion" to its return
route_format(chat, header, envelope, p) ==
    IF chat
    THEN IF created_field(header) = <<>>
         THEN Unhandled("ValueError")
         ELSE [Http(200, "chat_completion") EXCEPT
                 !.content = response_content(envelope, p),
                 !.created = created_field(header)]
    ELSE Http(200, "raw")

route_respond ==
    /\ pc = "respond"
    /\ \E header \in Headers :
         /\ x_request_time' = IF is_chat_completion THEN header ELSE x_request_time
         /\ ret' = route_format(is_chat_completion, header, results, params)
    /\ pc' = "done"
    /\ UNCHANGED <<entry, claude_api_key, is_chat_completion, query, parse_response,
                   params, sent, results, completionCalls, searchCalls, data_keys,
                   last_post, escaped,
                   data_read>>

----------------------------------------------------------------------------
(* The manual search of main(), and a direct completion call *)

\* int(limit_input) if limit_input else 10
ManualDefaultLimit == 10

\* main() from the limit prompt to the search: the limit typed is any
\* integer literal, nothing (the default), or no number (the default)
manual_search ==
    /\ entry = "manual_search" /\ pc = "start"
    /\ \E limit \in Ints \cup {ManualDefaultLimit}, site \in Sites \cup {"telegram"},
          querytype \in {"content", "boolean_content", "query_string"},
          outcome \in SearchOutcomes :
         LET r == search("trump", site, IntLimit(limit), querytype, outcome)
         IN  /\ sent' = sent \o r.request
             /\ searchCalls' = searchCalls + Len(r.request)
             /\ escaped' = IF r.raised # "" THEN escaped \cup {"search"} ELSE escaped
             /\ results' = r.envelope
             /\ ret' = [kind |-> "printed"]
    /\ query' = [isstr |-> TRUE, text |-> <<"trump">>]
    /\ pc' = "done"
    /\ UNCHANGED <<entry, claude_api_key, is_chat_completion, x_request_time,
                   parse_response, params, completionCalls, data_keys, last_post,
                   data_read>>

\* api.call_claude(prompt), called on its own
complete_direct ==
    /\ entry = "call_claude" /\ pc = "start"
    /\ \E outcome \in CompletionOutcomes :
         LET r == call_claude(claude_api_key, outcome)
         IN  /\ completionCalls' = completionCalls + r.posts
             /\ last_post' = IF r.posts = 0 THEN last_post ELSE outcome.kind
             /\ escaped' = IF r.raised # "" THEN escaped \cup {"call_claude"} ELSE escaped
             /\ ret' = IF r.raised # "" THEN Raised(r.raised)
                       ELSE [kind |-> "text", text |-> r.text]
    /\ pc' = "done"
    /\ UNCHANGED <<entry, claude_api_key, is_chat_completion, query, x_request_time,
                   parse_response, params, sent, results, searchCalls, data_keys,
                   data_read>>

----------------------------------------------------------------------------
Next ==
    \/ route_receive
    \/ nls_start
    \/ interpret_call
    \/ interpret_parse
    \/ search_call
    \/ summarize_call
    \/ route_respond
    \/ manual_search
    \/ complete_direct

Spec == Init /\ [][Next]_vars

----------------------------------------------------------------------------
(* ai_search_mode: the natural-language session of the CLI.  One behaviour *)
(* is one session; the variables of a request (query, parse_response,     *)
(* params, sent, results, ret, the two call counters, last_post, escaped) *)
(* describe the request in progress and are cleared when the session is   *)
(* back at its request prompt.                                            *)

MaxAnalyses == 1

ExitKeywords == {<<"quit">>, <<"exit">>, <<"q">>}

\* str.lower(), on the tokens of the lines typed at the prompts
lower(s) ==
    [i \in 1..Len(s) |-> CASE s[i] = "EXIT" -> "exit"
                           [] s[i] = "Q" -> "q"
                           [] OTHER -> s[i]]

\* the lines typed at "Your search request: "
RequestLines == UserQueries \cup {<<>>, <<" ">>, <<"quit">>, <<"EXIT">>, <<" ", "Q">>}

SessionInit ==
    /\ entry = "ai_search_mode"
    /\ claude_api_key \in BOOLEAN
    /\ pc = "start"
    /\ is_chat_completion = FALSE
    /\ query = NoQuery
    /\ x_request_time = [t |-> "absent", v |-> 0]
    /\ parse_response = <<>>
    /\ params = Unset
    /\ sent = <<>>
    /\ results = NoEnvelope
    /\ ret = NoReturn
    /\ completionCalls = 0
    /\ searchCalls = 0
    /\ data_keys = {}
    /\ last_post = "none"
    /\ escaped = {}
    /\ data_read = NoRead

\* api_key = input(...).strip(); if not api_key: return
ai_search_mode_start ==
    /\ entry = "ai_search_mode" /\ pc = "start"
    /\ pc' = IF claude_api_key THEN "prompt" ELSE "refused"
    /\ UNCHANGED <<entry, claude_api_key, is_chat_completion, query, x_request_time,
                   parse_response, params, sent, results, ret, completionCalls,
                   searchCalls, data_keys, last_post, escaped,
                   data_read>>

\* continue, or the end of the body of "while True": the next step is the
\* request prompt
back_to_prompt ==
    /\ pc' = "prompt"
    /\ query' = NoQuery
    /\ parse_response' = <<>>
    /\ params' = Unset
    /\ sent' = <<>>
    /\ results' = NoEnvelope
    /\ ret' = NoReturn
    /\ completionCalls' = 0
    /\ searchCalls' = 0
    /\ last_post' = "none"
    /\ escaped' = {}
    /\ UNCHANGED <<entry, claude_api_key, is_chat_completion, x_request_time, data_keys,
                   data_read>>

\* user_query = input("Your search request: ").strip(), the exit test, the
\* test for an empty line, and the entry into natural_language_search
ai_search_mode_prompt ==
    /\ entry = "ai_search_mode" /\ pc = "prompt"
    /\ \E line \in RequestLines :
         LET user_query == strip(line)
         IN  IF lower(user_query) \in ExitKeywords
             THEN pc' = "exited" /\ UNCHANGED <<query, ret>>
             ELSE IF user_query = <<>>
             THEN UNCHANGED <<pc, query, ret>>
             ELSE /\ query' = [isstr |-> TRUE, text |-> user_query]
                  /\ pc' = nls_validate(claude_api_key).next
                  /\ ret' = nls_validate(claude_api_key).ret
    /\ UNCHANGED <<entry, claude_api_key, is_chat_completion, x_request_time,
                   parse_response, params, sent, results, completionCalls, searchCalls,
                   data_keys, last_post, escaped,
                   data_read>>

\* from "result = api.natural_language_search(user_query)" to the prints of
\* the summary: what natural_language_search raised leaves ai_search_mode, an
\* error is printed, and result['total_found'] is read of every other result
ai_search_mode_result ==
    /\ entry = "ai_search_mode" /\ pc = "done"
    /\ CASE ret.kind = "raised" ->
              /\ pc' = "crashed"
              /\ UNCHANGED <<entry, claude_api_key, is_chat_completion, query,
                             x_request_time, parse_response, params, sent, results, ret,
                             completionCalls, searchCalls, data_keys, last_post, escaped,
                   data_read>>
         [] ret.kind = "error" -> back_to_prompt
         [] ret.kind = "no_results" ->
              \* the result returned without hits has no key 'total_found'
              /\ pc' = "crashed"
              /\ ret' = Raised("KeyError")
              /\ UNCHANGED <<entry, claude_api_key, is_chat_completion, query,
                             x_request_time, parse_response, params, sent, results,
                             completionCalls, searchCalls, data_keys, last_post, escaped,
                   data_read>>
         [] ret.kind = "summary" ->
              /\ pc' = "analysis"
              /\ parse_response' = <<>>
              /\ UNCHANGED <<entry, claude_api_key, is_chat_completion, query,
                             x_request_time, params, sent, results, ret, completionCalls,
                             searchCalls, data_keys, last_post, escaped,
                   data_read>>

\* the inner "while True": additional = input(...); on 'y' and an analysis
\* request that is not empty, custom_analysis = api.call_claude(custom_prompt),
\* which stands in no try block; on any other answer, break
ai_search_mode_analysis ==
    /\ entry = "ai_search_mode" /\ pc = "analysis"
    /\ \E additional \in {"y", "n"}, analysis_query \in {<<>>, <<"q">>},
          outcome \in CompletionOutcomes :
         IF additional = "y" /\ analysis_query # <<>>
         THEN LET r == call_claude(claude_api_key, outcome)
              IN  /\ completionCalls < 2 + MaxAnalyses
                  /\ completionCalls' = completionCalls + r.posts
                  /\ last_post' = IF r.posts = 0 THEN last_post ELSE outcome.kind
                  /\ escaped' = IF r.raised # "" THEN escaped \cup {"call_claude"}
                                ELSE escaped
                  /\ pc' = IF r.raised # "" THEN "crashed" ELSE "analysis"
                  /\ ret' = IF r.raised # "" THEN Raised(r.raised) ELSE ret
         ELSE /\ pc' = IF additional = "y" THEN "analysis" ELSE "show_raw"
              /\ UNCHANGED <<ret, completionCalls, last_post, escaped>>
    /\ UNCHANGED <<entry, claude_api_key, is_chat_completion, query, x_request_time,
                   parse_response, params, sent, results, searchCalls, data_keys,
                   data_read>>

\* show_raw = input(...); the first ten hits are printed on 'y'; then the
\* body of the loop ends
ai_search_mode_show_raw ==
    /\ entry = "ai_search_mode" /\ pc = "show_raw"
    /\ \E show_raw \in {"y", "n"} : back_to_prompt

SessionNext ==
    \/ ai_search_mode_start
    \/ ai_search_mode_prompt
    \/ interpret_call
    \/ interpret_parse
    \/ search_call
    \/ summarize_call
    \/ ai_search_mode_result
    \/ ai_search_mode_analysis
    \/ ai_search_mode_show_raw

SessionSpec == SessionInit /\ [][SessionNext]_vars

----------------------------------------------------------------------------
(* Shorthands of the properties *)

\* the limit search was called with, when the parameters came from the
\* interpreter
LimitPassed == get(params.limit, IntLimit(DefaultLimit))

\* search has returned (it did not raise)
SearchReturned == results.kind \in {"ok", "error"}

\* the reply the interpreter holds cannot be parsed as JSON
ReplyUnparsable ==
    parse_response # <<>> /\ ~json_loads_ok(extract_json(parse_response[1]))

\* ret is a Failure, and the description it carries
IsFailure ==
    \/ ret.kind = "error"
    \/ ret.kind = "http" /\ ret.shape \in {"error", "chat_completion_error"}

FailureMessage ==
    IF ret.kind = "error" THEN ret.error
    ELSE IF ret.shape = "error" THEN ret.error[1]
    ELSE ret.content.error[1]

\* the failing outcomes of a POST to the completion API
FailingPosts == {"transport_error", "http_error", "no_content", "empty_content", "no_text"}

----------------------------------------------------------------------------
(* Properties *)

\* C1: every limit placed in an outbound query lies in 1..10000, whatever
\* limit L was passed to search (0 and negative integers included), and it
\* equals min(L, 10000) whenever L > 0.
C1_SentLimitClamped ==
    /\ \A i \in 1..Len(sent) : sent[i].limit >= 1 /\ sent[i].limit <= LimitCap
    /\ (params.kind = "object" /\ sent # <<>> /\ LimitPassed.v > 0)
          => sent[1].limit = IF LimitPassed.v < LimitCap THEN LimitPassed.v ELSE LimitCap

\* C2: search never raises to its caller: whatever parameters the
\* interpreter hands it (a limit that is absent, null or no number
\* included) and whatever the GET does, it returns the payload or a Failure
\* envelope that carries the error description.
C2_SearchNeverRaises ==
    /\ "search" \notin escaped
    /\ (pc \in {"respond", "summarize_call"} => SearchReturned)
    /\ (results.kind = "error" => results.error # <<>>)

\* C3: the completion call does not raise and returns a Failure with a
\* descriptive message, on a transport error and on a 2xx reply whose body
\* has an unexpected shape (content missing, content empty, first block
\* without text) alike.
C3_CompletionFailureReturned ==
    /\ "call_claude" \notin escaped
    /\ (entry = "call_claude" /\ pc = "done" /\ last_post \in FailingPosts)
          => ret.kind = "text" /\ ret.text = CallErrorText

\* C4: without a completion credential the completion call returns a
\* Failure and no request goes to the completion API; natural_language_search
\* of the CLI wrapper then returns a Failure too and sends no search request.
C4_NoCredentialNoCall ==
    ~claude_api_key =>
        /\ completionCalls = 0
        /\ (entry = "call_claude" /\ pc = "done")
              => ret.kind = "text" /\ ret.text = KeyNotSetText
        /\ entry = "natural_language_search"
              => /\ searchCalls = 0
                 /\ pc \in {"start", "done"}
                 /\ (pc = "done" => ret.kind = "error" /\ ret.error = KeyNotSet)

\* C4 witness: a direct completion call without credential has returned
C4_Witness ==
    /\ ~claude_api_key
    /\ entry = "call_claude"
    /\ pc = "done"
    /\ ret.kind = "text"

\* C5: when the model's reply cannot be parsed as JSON, the Failure the
\* interpreter returns carries the parse error and the raw unparsed reply,
\* in the CLI wrapper and in the server wrapper, and no search is issued.
C5_ParseFailureCarriesRawReply ==
    /\ (entry = "natural_language_search" /\ pc = "done" /\ ReplyUnparsable)
          => /\ IsFailure
             /\ FailureMessage.cause = "JSONDecodeError"
             /\ FailureMessage.raw = parse_response
             /\ searchCalls = 0
    /\ (entry = "search_route" /\ pc = "done" /\ params.kind = "object"
        /\ params.error # <<>> /\ params.error[1].cause = "JSONDecodeError")
          => /\ IsFailure
             /\ FailureMessage.cause = "JSONDecodeError"
             /\ FailureMessage.raw # <<>>
             /\ searchCalls = 0


\* the fenced replies around the JSON text j that carry the json tag and
\* close the fence on a line of its own
OwnLineFenced(j) ==
    {FenceTagOnFenceLine(j), FenceTagOnOwnLine(j), Padded(FenceTagOnFenceLine(j))}

\* every fenced reply around j that carries the json tag
TagFenced(j) == OwnLineFenced(j) \cup {FenceClosedOnObjectLine(j)}

\* the interpreter holds a parsed JSON value, no parse Failure
ParseSucceeded ==
    IF entry = "search_route"
    THEN \/ params.kind = "nonobject"
         \/ /\ params.kind = "object"
            /\ ~(params.error # <<>> /\ params.error[1].cause = "JSONDecodeError")
    ELSE params.kind \in {"object", "nonobject"}

\* the step that interprets the reply w hands json.loads the text it hands
\* it for the bare reply j, and ends with the parsed value
InterpretedLikeBare(w, j) ==
    (pc = "interpret_parse" /\ parse_response = <<w>>)
        => extract_json(w) = extract_json(Bare(j)) /\ ParseSucceeded'

\* C6 (as amended): a reply that wraps the JSON object J in a fenced block
\* with the json tag (on the opening fence line or on its own line) and with
\* the closing fence on a line of its own is interpreted as the bare reply J.
C6_OwnLineFencedLikeBare ==
    [][\A j \in JTexts : \A w \in OwnLineFenced(j) : InterpretedLikeBare(w, j)]_vars

\* C6 witness: a two-line object, the tag on its own line, has been parsed
C6_Witness ==
    /\ entry = "natural_language_search"
    /\ pc = "search"
    /\ parse_response = <<FenceTagOnOwnLine(<<"J1", "\n", "J2">>)>>
    /\ params.kind = "object"

\* C6 (as claimed): a reply that wraps the JSON object J in a fenced block
\* with the json tag is interpreted as the bare reply J whatever the line
\* layout of the fence, the closing fence on the object's line included.
C6_AnyFenceLayoutLikeBare ==
    [][\A j \in JTexts : \A w \in TagFenced(j) : InterpretedLikeBare(w, j)]_vars

\* C7: in chat-completion mode a search envelope that is a Failure is
\* answered 200 with a chat-completion object whose message holds the error
\* text and the reconstructed request URL, whatever the request headers.
C7_SearchFailureAnswered200 ==
    (entry = "search_route" /\ pc = "done" /\ is_chat_completion /\ results.kind = "error")
        => /\ ret.status = 200
           /\ ret.shape = "chat_completion"
           /\ ret.content.error = results.error
           /\ ret.content.url # <<>>

\* the interpreter of POST /search has returned a Failure
InterpretationFailed ==
    entry = "search_route" /\ pc = "done" /\ params.kind = "object" /\ params.error # <<>>

AnsweredChatError ==
    /\ ret.status = 200
    /\ ret.shape = "chat_completion_error"
    /\ ret.content.error = params.error

AnsweredParsing400 ==
    /\ ret.status = 400
    /\ ret.shape = "error"
    /\ ret.error = params.error
    /\ ret.stage = "parsing"

\* C8 (as amended): on interpretation failure a request whose body carries
\* both messages and model is answered 200 with a chat-completion object
\* whose message explains the parsing error, every other request is answered
\* 400 with an error field and stage = parsing; no search request is issued.
C8_InterpretationFailureAnswer ==
    InterpretationFailed =>
        /\ searchCalls = 0
        /\ IF {"messages", "model"} \subseteq data_keys
           THEN AnsweredChatError
           ELSE AnsweredParsing400

\* C8 witness: a body with a messages array and no model was answered 400
C8_Witness ==
    /\ InterpretationFailed
    /\ data_keys = {"messages"}
    /\ AnsweredParsing400

\* C8 (as claimed): on interpretation failure a body with a messages array
\* (and no query field) is answered 200 with a chat-completion object, a
\* body with query is answered 400 with stage = parsing; no search is issued.
C8_ByBodyFormat ==
    InterpretationFailed =>
        /\ searchCalls = 0
        /\ ("query" \notin data_keys => AnsweredChatError)
        /\ ("query" \in data_keys => AnsweredParsing400)

\* C9: a POST /search whose query is missing or empty is answered 400 with
\* an error field, one with a query and no completion credential is answered
\* 500 with an error field; neither makes a completion or a search call.
C9_ValidationAnswers ==
    (entry = "search_route" /\ pc = "done")
        => /\ query.text = <<>>
                => /\ ret.status = 400 /\ ret.error # <<>>
                   /\ completionCalls = 0 /\ searchCalls = 0
           /\ (query.text # <<>> /\ ~claude_api_key)
                => /\ ret.status = 500 /\ ret.error # <<>>
                   /\ completionCalls = 0 /\ searchCalls = 0

\* C10: the chat-completion answer is produced whatever the X-Request-Time
\* header, and its created field is the header's value when the header is a
\* positive integer and 1234567890 otherwise (absent, zero, negative, no integer).
C10_CreatedField ==
    (entry = "search_route" /\ pc = "done" /\ is_chat_completion /\ SearchReturned)
        => /\ ret.shape = "chat_completion"
           /\ ret.created = IF x_request_time.t = "int" /\ x_request_time.v > 0
                            THEN <<x_request_time.v>>
                            ELSE <<CreatedFallback>>

----------------------------------------------------------------------------
\* C11: the natural-language session of the CLI ends only when an exit
\* keyword was entered at its request prompt: after an error, a search
\* without hits, a search with hits and every follow-up analysis it is back
\* at the request prompt, and no exception ends it.
C11_SessionEndsOnlyOnExit ==
    entry = "ai_search_mode" => pc # "crashed"

----------------------------------------------------------------------------
\* the parsed reply is an object whose limit is missing or a number
LimitUsable == params.limit = <<>> \/ params.limit[1].t = "int"

\* the request the claim expects of the parsed reply p
ExpectedRequest(p) ==
    [term      |-> IF p.term = <<>> THEN "" ELSE p.term[1],
     site      |-> IF p.site = <<>> THEN "telegram" ELSE p.site[1],
     limit     |-> IF p.limit = <<>> THEN 20 ELSE cap_limit(p.limit[1].v),
     querytype |-> IF p.querytype = <<>> THEN "content" ELSE p.querytype[1],
     sortdesc  |-> "false"]

----------------------------------------------------------------------------
\* q is rest without the whitespace around it
Trimmed(rest, q) ==
    \E a \in 1..(Len(rest) + 1), b \in 0..Len(rest) :
        /\ q = SubSeq(rest, a, b)
        /\ \A i \in 1..Len(rest) : (i < a \/ i > b) => rest[i] \in Whitespace
        /\ q # <<>> => q[1] \notin Whitespace /\ q[Len(q)] \notin Whitespace

\* q is the query the claim reads in the content c of the last message
QueryOfContent(c, q) ==
    IF c.isstr /\ \E i \in 1..Len(c.text) : c.text[i] = "]:"
    THEN /\ q.isstr
         /\ \E i \in 1..Len(c.text) :
              /\ c.text[i] = "]:"
              /\ \A j \in 1..(i - 1) : c.text[j] # "]:"
              /\ Trimmed(SubSeq(c.text, i + 1, Len(c.text)), q.text)
    ELSE q = c

\* C13: once POST /search has extracted its query, a body with a query field
\* has that field as the query (its messages are not read), and a body
\* without one, whose messages list has a last message with a content, has as
\* the query the text after the first "]:" of that content, without the
\* whitespace around it, when the content is a string that contains "]:",
\* and the whole content otherwise.
C13_ChatQueryExtraction ==
    (entry = "search_route" /\ pc # "start") =>
        /\ data_read.query # <<>> => query = data_read.query[1]
        /\ (/\ data_read.last_message # <<>>
            /\ data_read.last_message[1].isdict
            /\ data_read.last_message[1].content # <<>>)
           => QueryOfContent(data_read.last_message[1].content[1], query)

\* the envelope of an actor was cut off the content of the last message
C13_Witness ==
    /\ entry = "search_route" /\ pc = "interpret_call"
    /\ data_read.last_message # <<>>
    /\ data_read.last_message[1].content = <<[isstr |-> TRUE, text |-> <<"a", "]:", "\n", "q">>]>>
    /\ query = [isstr |-> TRUE, text |-> <<"q">>]

----------------------------------------------------------------------------
\* C14: in a chat-completion answer given after a search request was sent,
\* the request URL of the assistant message shows the term, site, limit and
\* querytype of that request, also where a default stood in for a missing
\* field and where the limit was clamped.
C14_UrlShowsSentRequest ==
    (/\ entry = "search_route" /\ pc = "done"
     /\ ret.shape = "chat_completion"
     /\ sent # <<>>)
    => /\ ret.content.url # <<>>
       /\ ret.content.url[1].term = <<sent[Len(sent)].term>>
       /\ ret.content.url[1].site = <<sent[Len(sent)].site>>
       /\ ret.content.url[1].limit = <<IntLimit(sent[Len(sent)].limit)>>
       /\ ret.content.url[1].querytype = <<sent[Len(sent)].querytype>>

----------------------------------------------------------------------------
\* C15: within one natural-language request (natural_language_search, POST
\* /search) every POST to the completion API is either the first downstream
\* call of the request (the interpretation), or the second POST, made after
\* the one search GET of the request returned an envelope with at least one
\* hit (the summarization); and every search GET is the first GET of the
\* request, made after the one interpretation POST returned and its reply
\* was parsed into the parameters.
C15_CallOrder ==
    [][(entry \in {"natural_language_search", "search_route"}) =>
        (/\ completionCalls' # completionCalls =>
              \/ /\ completionCalls = 0 /\ completionCalls' = 1
                 /\ searchCalls = 0 /\ searchCalls' = 0
                 /\ params = Unset
              \/ /\ completionCalls = 1 /\ completionCalls' = 2
                 /\ searchCalls = 1 /\ searchCalls' = 1
                 /\ results.kind = "ok" /\ results.hits > 0
         /\ searchCalls' # searchCalls =>
              /\ searchCalls = 0 /\ searchCalls' = 1
              /\ completionCalls = 1 /\ completionCalls' = 1
              /\ parse_response' = parse_response
              /\ params.kind = "object")]_vars

\* a request that made the three calls
C15_Witness ==
    /\ entry = "natural_language_search" /\ pc = "done"
    /\ completionCalls = 2 /\ searchCalls = 1
    /\ ret.kind = "summary" /\ results.hits > 0

====
